---- MODULE Spec2Model ----
(***************************************************************************)
(* State-machine model of the ICPC scoreboard system of src/main.cpp:      *)
(* team registry, per-problem records, freeze / scroll mechanics, visible  *)
(* metrics, the ranking comparator and the two queries.                    *)
(*                                                                         *)
(* Team names are std::string values; they are modelled as tuples of       *)
(* character codes so that operator< is the lexicographic comparison the   *)
(* library performs.  Problem letters 'A', 'B', ... are modelled by their  *)
(* index problem - 'A' (0, 1, ...).                                        *)
(***************************************************************************)
EXTENDS Integers, Sequences, FiniteSets, TLC

\* ---------------------------------------------------------------- bounds
\* Largest problem count START may fix.
MaxProblems == 2
\* Largest timestamp of a submission (timestamps are >= 1).
MaxTime == 2
\* Largest total number of SUBMIT commands accepted for registered teams.
MaxSubmits == 2

\* ------------------------------------------------------------- constants
\* Penalty minutes per rejected attempt before the first acceptance.
PenaltyPerWrong == 20
\* "no acceptance yet" value of first_ac_time, and the padding value of the
\* comparator for a missing solve time.
NoTime == -1

\* The team names the commands may mention: "a", "aa", "b".
TeamNames == {<<1>>, <<1, 1>>, <<2>>}
\* The names ADDTEAM may register in the specification that also runs the
\* queries (the third name is then always an unknown team).
QueryTeamNames == {<<1>>, <<1, 1>>}
\* Verdicts; every verdict other than Accepted is a rejection.
Statuses == {"Accepted", "Wrong_Answer"}
IsAc(status) == status = "Accepted"
IsWrong(status) ==
    status \in {"Wrong_Answer", "Runtime_Error", "Time_Limit_Exceed"}
\* The only contest duration START is given here (the value is stored, never read).
Durations == {5}

\* ------------------------------------------------------- library helpers
\* std::string operator< : lexicographic, a proper prefix is smaller.
RECURSIVE StrLess(_, _)
StrLess(a, b) ==
    IF b = <<>> THEN FALSE
    ELSE IF a = <<>> THEN TRUE
    ELSE IF Head(a) # Head(b) THEN Head(a) < Head(b)
    ELSE StrLess(Tail(a), Tail(b))

\* Iteration order of std::map<string, ...>: the keys in ascending order.
RECURSIVE KeysAscending(_)
KeysAscending(S) ==
    IF S = {} THEN <<>>
    ELSE LET m == CHOOSE x \in S : \A y \in S \ {x} : StrLess(x, y)
         IN <<m>> \o KeysAscending(S \ {m})

\* std::sort of a vector<int> with greater<int>: descending order.
RECURSIVE InsertDesc(_, _)
InsertDesc(x, s) ==
    IF s = <<>> THEN <<x>>
    ELSE IF x >= Head(s) THEN <<x>> \o s
    ELSE <<Head(s)>> \o InsertDesc(x, Tail(s))

RECURSIVE SortDesc(_)
SortDesc(s) ==
    IF s = <<>> THEN <<>> ELSE InsertDesc(Head(s), SortDesc(Tail(s)))

\* ------------------------------------------------------------ data model
\* ProblemState() as default-constructed.
NewProblemState ==
    [wrong_before_accept |-> 0,
     first_ac_time |-> NoTime,
     wrong_before_freeze |-> 0,
     submissions_after_freeze |-> 0,
     post_freeze_submissions |-> <<>>,
     solved_before_freeze |-> FALSE,
     is_frozen |-> FALSE,
     total_wrong_attempts |-> 0]

\* ProblemState::solved()
Solved(ps) == ps.first_ac_time # NoTime

\* vector<ProblemState>::assign(n, ProblemState())
NewProblems(n) == [i \in 1..n |-> NewProblemState]

\* Team() as default-constructed, then named and given its problems.
NewTeam(team_name, n) ==
    [name |-> team_name,
     problems |-> NewProblems(n),
     solved_count |-> 0,
     penalty_sum |-> 0,
     solve_times_sorted_desc |-> <<>>,
     has_frozen_problem |-> FALSE,
     all_submissions |-> <<>>]

\* ------------------------------------------------------------ comparator
\* Element i (1-based) of a solve-time list, -1 when missing.
TimeAt(v, i) == IF i <= Len(v) THEN v[i] ELSE NoTime

Max(x, y) == IF x >= y THEN x ELSE y

\* A variant of the comparator without the final name tie-break.
BoardLessNoName(a, b) ==
    IF a.solved_count # b.solved_count THEN a.solved_count > b.solved_count
    ELSE IF a.penalty_sum # b.penalty_sum THEN a.penalty_sum < b.penalty_sum
    ELSE LET va == a.solve_times_sorted_desc
             vb == b.solve_times_sorted_desc
             n == Max(Len(va), Len(vb))
             diff == {i \in 1..n : TimeAt(va, i) # TimeAt(vb, i)}
         IN IF diff # {}
            THEN LET i == CHOOSE j \in diff : \A k \in diff : j <= k
                 IN TimeAt(va, i) < TimeAt(vb, i)
            ELSE FALSE

\* A variant of the comparator that puts the team with fewer solved
\* problems first.
BoardLessFewerFirst(a, b) ==
    IF a.solved_count # b.solved_count THEN a.solved_count < b.solved_count
    ELSE IF a.penalty_sum # b.penalty_sum THEN a.penalty_sum < b.penalty_sum
    ELSE StrLess(a.name, b.name)

\* BoardLess::operator(): TRUE when team a outranks team b.
BoardLess(a, b) ==
    IF a.solved_count # b.solved_count THEN a.solved_count > b.solved_count
    ELSE IF a.penalty_sum # b.penalty_sum THEN a.penalty_sum < b.penalty_sum
    ELSE LET va == a.solve_times_sorted_desc
             vb == b.solve_times_sorted_desc
             n == Max(Len(va), Len(vb))
             diff == {i \in 1..n : TimeAt(va, i) # TimeAt(vb, i)}
         IN IF diff # {}
            THEN LET i == CHOOSE j \in diff : \A k \in diff : j <= k
                 IN TimeAt(va, i) < TimeAt(vb, i)
            ELSE StrLess(a.name, b.name)

\* std::sort of team pointers with BoardLess over the records in T
\* (insertion sort; the result of sorting distinct teams does not depend
\* on the algorithm when the comparator is a strict total order).
RECURSIVE InsertByBoard(_, _, _)
InsertByBoard(T, x, s) ==
    IF s = <<>> THEN <<x>>
    ELSE IF BoardLess(T[x], T[Head(s)]) THEN <<x>> \o s
    ELSE <<Head(s)>> \o InsertByBoard(T, x, Tail(s))

RECURSIVE SortByBoard(_, _)
SortByBoard(T, s) ==
    IF s = <<>> THEN <<>>
    ELSE InsertByBoard(T, Head(s), SortByBoard(T, Tail(s)))

\* getAllRawTeams(): the teams in map order.
AllRawTeams(T) == KeysAscending(DOMAIN T)

\* A variant of the board order that leaves the teams in map order.
OrderedTeamsByMap(T) == AllRawTeams(T)

\* getOrderedTeamsByBoard() with its default argument (false), which is the
\* only way it is called: always the BoardLess order.
OrderedTeamsByBoard(T) == SortByBoard(T, AllRawTeams(T))

\* findPosition(): 0-based index of t in vec, vec.size() when absent.
FindPosition(vec, t) ==
    IF \E i \in 1..Len(vec) : vec[i] = t
    THEN (CHOOSE i \in 1..Len(vec) : vec[i] = t /\ \A j \in 1..(i - 1) : vec[j] # t) - 1
    ELSE Len(vec)

\* ---------------------------------------------------------- score engine
\* The loop body of rebuildVisibleMetrics() for problems i..n of team t:
\* a problem hidden by freeze contributes nothing, a solved one contributes
\* one solve, its penalty and its time (pushed in problem order).
RECURSIVE RebuildFrom(_, _, _, _)
RebuildFrom(t, frz, i, n) ==
    IF i > n THEN t
    ELSE LET ps == t.problems[i]
             t2 == IF frz /\ ps.is_frozen THEN t
                   ELSE IF ps.first_ac_time # NoTime
                        THEN [t EXCEPT
                                !.solved_count = @ + 1,
                                !.penalty_sum =
                                    @ + PenaltyPerWrong * ps.wrong_before_accept
                                      + ps.first_ac_time,
                                !.solve_times_sorted_desc =
                                    Append(@, ps.first_ac_time)]
                        ELSE t
         IN RebuildFrom(t2, frz, i + 1, n)

\* A variant of the per-team rebuild that does not reset the metrics first.
RebuildTeamNoReset(t, frz, n) ==
    LET r == RebuildFrom(t, frz, 1, n)
    IN [r EXCEPT !.solve_times_sorted_desc = SortDesc(@)]

\* A variant of the per-team rebuild that resets the counters but not the
\* solve-time list.
RebuildTeamKeepTimes(t, frz, n) ==
    LET z == [t EXCEPT !.solved_count = 0, !.penalty_sum = 0]
        r == RebuildFrom(z, frz, 1, n)
    IN [r EXCEPT !.solve_times_sorted_desc = SortDesc(@)]

\* rebuildVisibleMetrics() for one team: reset, accumulate, sort descending.
RebuildTeam(t, frz, n) ==
    LET z == [t EXCEPT !.solved_count = 0, !.penalty_sum = 0,
                       !.solve_times_sorted_desc = <<>>]
        r == RebuildFrom(z, frz, 1, n)
    IN [r EXCEPT !.solve_times_sorted_desc = SortDesc(@)]

\* rebuildVisibleMetrics() over all teams.
RebuildVisibleMetrics(T, frz, n) ==
    [name \in DOMAIN T |-> RebuildTeam(T[name], frz, n)]

\* ------------------------------------------------------ submission ledger
\* A variant of the real-time update that also updates a solved problem.
LiveApplyAlways(ps, status, time) ==
    IF IsAc(status) THEN [ps EXCEPT !.first_ac_time = time]
    ELSE IF IsWrong(status) THEN [ps EXCEPT !.wrong_before_accept = @ + 1]
    ELSE ps

\* The real-time update of submit(): only an unsolved problem changes; an
\* acceptance sets first_ac_time, a rejection counts one wrong attempt.
LiveApply(ps, status, time) ==
    IF ~Solved(ps)
    THEN IF IsAc(status) THEN [ps EXCEPT !.first_ac_time = time]
         ELSE IF IsWrong(status) THEN [ps EXCEPT !.wrong_before_accept = @ + 1]
         ELSE ps
    ELSE ps

\* A variant of the capture that puts the submission at the front.
CaptureAtFront(ps, s) ==
    [ps EXCEPT !.is_frozen = TRUE,
               !.submissions_after_freeze = @ + 1,
               !.post_freeze_submissions = <<s>> \o @]

\* A variant of the capture that does not count the submission.
CaptureNoCount(ps, s) ==
    [ps EXCEPT !.is_frozen = TRUE,
               !.post_freeze_submissions = Append(@, s)]

\* A variant of the capture that does not mark the problem frozen.
CaptureNoFlag(ps, s) ==
    [ps EXCEPT !.submissions_after_freeze = @ + 1,
               !.post_freeze_submissions = Append(@, s)]

\* The frozen-period branch of submit() for a problem not solved before
\* the freeze: mark frozen, count the submission, append it to the buffer.
Capture(ps, s) ==
    [ps EXCEPT
       !.is_frozen = TRUE,
       !.submissions_after_freeze =
           IF IsWrong(s.status) THEN @ + 1
           ELSE IF IsAc(s.status) THEN @ + 1 ELSE @,
       !.post_freeze_submissions = Append(@, s)]

\* A variant of the per-problem effect that never captures.
SubmitProblemNoCapture(ps, frz, s) == LiveApply(ps, s.status, s.time)

\* A variant of the per-problem effect that captures every submission made
\* while frozen.
SubmitProblemAlwaysCapture(ps, frz, s) ==
    IF ~frz THEN LiveApply(ps, s.status, s.time) ELSE Capture(ps, s)

\* The per-problem effect of submit().
SubmitProblem(ps, frz, s) ==
    IF ~frz THEN LiveApply(ps, s.status, s.time)
    ELSE IF ~ps.solved_before_freeze THEN Capture(ps, s)
    ELSE LiveApply(ps, s.status, s.time)

\* The per-team effect of submit(): the history always grows; the problem
\* record changes only for a problem index inside the contest.
SubmitTeam(t, frz, n, s) ==
    LET t1 == [t EXCEPT !.all_submissions = Append(@, s)]
    IN IF s.problem < 0 \/ s.problem >= n THEN t1
       ELSE [t1 EXCEPT !.problems[s.problem + 1] = SubmitProblem(@, frz, s)]

\* ------------------------------------------------------ freeze controller
\* The per-problem snapshot of freeze().
FreezeProblem(ps) ==
    [ps EXCEPT
       !.solved_before_freeze = Solved(ps),
       !.wrong_before_freeze = ps.wrong_before_accept,
       !.submissions_after_freeze = 0,
       !.post_freeze_submissions = <<>>,
       !.is_frozen = FALSE]

\* The per-team effect of freeze().
FreezeTeam(t, n) ==
    [t EXCEPT
       !.has_frozen_problem = FALSE,
       !.problems = [i \in 1..Len(t.problems) |->
                        IF i <= n THEN FreezeProblem(t.problems[i])
                        ELSE t.problems[i]]]

\* ----------------------------------------------------------- scroll reveal
\* The replay loop of scroll() over the buffer b, in arrival order.
RECURSIVE ReplayFrom(_, _)
ReplayFrom(ps, b) ==
    IF b = <<>> THEN ps
    ELSE LET s == Head(b)
             ps2 == IF ps.first_ac_time = NoTime
                    THEN IF IsAc(s.status)
                         THEN [ps EXCEPT !.first_ac_time = s.time]
                         ELSE IF IsWrong(s.status)
                              THEN [ps EXCEPT !.wrong_before_accept = @ + 1]
                              ELSE ps
                    ELSE ps
         IN ReplayFrom(ps2, Tail(b))

\* A variant of the unfreeze that drops the buffer without replaying it.
UnfreezeNoReplay(ps) ==
    [ps EXCEPT !.is_frozen = FALSE, !.post_freeze_submissions = <<>>]

\* Unfreeze of one problem: replay, clear the flag, clear the buffer.
Unfreeze(ps) ==
    LET r == IF ~ps.solved_before_freeze
             THEN ReplayFrom(ps, ps.post_freeze_submissions)
             ELSE ps
    IN [r EXCEPT !.is_frozen = FALSE, !.post_freeze_submissions = <<>>]

\* The flag recomputation of scroll() before its loop, for one team.
RecomputeFrozen(t, n) ==
    LET hit == {i \in 1..n : /\ ~t.problems[i].solved_before_freeze
                             /\ t.problems[i].post_freeze_submissions # <<>>}
    IN [t EXCEPT
          !.has_frozen_problem = (hit # {}),
          !.problems = [i \in 1..Len(t.problems) |->
                           IF i \in hit
                           THEN [t.problems[i] EXCEPT !.is_frozen = TRUE]
                           ELSE t.problems[i]]]

\* anyFrozenExists()
AnyFrozenExists(T) == \E name \in DOMAIN T : T[name].has_frozen_problem

\* A variant of the pick that takes the first such team in ord.
PickTargetHighest(T, ord) ==
    LET hit == {i \in 1..Len(ord) : T[ord[i]].has_frozen_problem}
    IN IF hit = {} THEN <<>>
       ELSE ord[CHOOSE i \in hit : \A j \in hit : i <= j]

\* The team the loop picks: the last one in ord with has_frozen_problem,
\* <<>> (no team) when there is none.
PickTarget(T, ord) ==
    LET hit == {i \in 1..Len(ord) : T[ord[i]].has_frozen_problem}
    IN IF hit = {} THEN <<>>
       ELSE ord[CHOOSE i \in hit : \A j \in hit : j <= i]

\* The smallest frozen problem index (0-based) of team t, -1 when none.
PickProblem(t, n) ==
    LET hit == {i \in 1..n : t.problems[i].is_frozen}
    IN IF hit = {} THEN -1
       ELSE (CHOOSE i \in hit : \A j \in hit : i <= j) - 1

\* A variant of the recomputation that always clears the flag.
RefreshHasFrozenNever(t, n) == [t EXCEPT !.has_frozen_problem = FALSE]

\* The recomputation of has_frozen_problem after one unfreeze.
RefreshHasFrozen(t, n) ==
    [t EXCEPT !.has_frozen_problem = \E i \in 1..n : t.problems[i].is_frozen]

\* ------------------------------------------------------------ board dump
\* The cell printScoreboard() prints for one problem, as the sequence of its
\* parts (numbers stand for their decimal text): "0/y" or "-x/y" for a
\* problem hidden by freeze, "+" or "+x" for a solved one, "." or "-x"
\* otherwise.
Cell(ps, frz) ==
    IF frz /\ ps.is_frozen /\ ~ps.solved_before_freeze
    THEN LET x == ps.wrong_before_freeze
             y == ps.submissions_after_freeze
         IN IF x = 0
            THEN (IF y = 0 THEN <<".">> ELSE <<"0/", y>>)
            ELSE <<"-", x, "/", y>>
    ELSE IF ps.first_ac_time # NoTime
    THEN LET x == ps.wrong_before_accept
         IN IF x = 0 THEN <<"+">> ELSE <<"+", x>>
    ELSE LET x == ps.wrong_before_accept
         IN IF x = 0 THEN <<".">> ELSE <<"-", x>>

\* printScoreboard(): one row per team in board order: name, rank, solved
\* count, penalty, and the cells of the problems.
PrintScoreboard(T, frz, n) ==
    LET ord == OrderedTeamsByBoard(T)
    IN [r \in 1..Len(ord) |->
          [name |-> T[ord[r]].name,
           rank |-> r,
           solved |-> T[ord[r]].solved_count,
           penalty |-> T[ord[r]].penalty_sum,
           cells |-> [i \in 1..n |-> Cell(T[ord[r]].problems[i], frz)]]]

\* ------------------------------------------------------------------ state
VARIABLES
    started,             \* ICPCSystem::started
    frozen,              \* ICPCSystem::frozen
    duration_time,       \* ICPCSystem::duration_time
    problem_count,       \* ICPCSystem::problem_count
    has_flushed,         \* ICPCSystem::has_flushed
    last_flushed_order,  \* ICPCSystem::last_flushed_order (team names)
    teams_by_name,       \* ICPCSystem::teams_by_name: name -> Team
    pc,                  \* position of the command loop: "idle", or inside scroll()
    ordered,             \* scroll()'s local vector `ordered` (<<>> outside scroll)
    last,                \* the last command executed and what it printed
    ref,                 \* history: per team and problem, the record a board
                         \* that never freezes would hold
    flush_mark,          \* history: "none", or "flushed" once a FLUSH has happened
                         \* in this frozen phase with the same teams and contest,
                         \* or "flushed_then_submit" once a SUBMIT followed it
    scr                  \* history of the running scroll(): iterations, pairs
                         \* frozen at its start, pairs revealed, the last step,
                         \* the board printed before the loop

vars == <<started, frozen, duration_time, problem_count, has_flushed,
          last_flushed_order, teams_by_name, pc, ordered,
          last, ref, flush_mark, scr>>

\* The program's own state between commands (everything but the history
\* variables and the record of the last output).
progState == <<started, frozen, duration_time, problem_count, has_flushed,
               last_flushed_order, teams_by_name>>

\* What a command was given and printed: cmd, whether it succeeded, its
\* message, and for the queries the team, the two filters, the rank and the
\* submission line (<<>> = none).
Out(cmd, ok, msg) ==
    [cmd |-> cmd, ok |-> ok, msg |-> msg, team |-> <<>>, problem |-> "",
     status |-> "", rank |-> 0, sub |-> <<>>]

NoStep == [kind |-> "none", target |-> <<>>, idx |-> -1, emitted |-> FALSE,
           replaced |-> <<>>, via |-> "none", solved |-> 0, penalty |-> 0]

NoScroll == [iters |-> 0, at_start |-> {}, revealed |-> <<>>, step |-> NoStep,
             board |-> <<>>]

\* The record a never-freezing board holds for one problem.
NewRef == [wrong_before_accept |-> 0, first_ac_time |-> NoTime]

\* The (team, problem index) pairs whose is_frozen flag is set.
FrozenPairs(T) ==
    {pr \in (DOMAIN T) \X (0..(MaxProblems - 1)) :
        /\ pr[2] + 1 <= Len(T[pr[1]].problems)
        /\ T[pr[1]].problems[pr[2] + 1].is_frozen}

\* ICPCSystem(): nothing started, nothing frozen, no team.
Init ==
    /\ started = FALSE
    /\ frozen = FALSE
    /\ duration_time = 0
    /\ problem_count = 0
    /\ has_flushed = FALSE
    /\ last_flushed_order = <<>>
    /\ teams_by_name = <<>>
    /\ pc = "idle"
    /\ ordered = <<>>
    /\ last = Out("none", TRUE, "")
    /\ ref = <<>>
    /\ flush_mark = "none"
    /\ scr = NoScroll

\* ---------------------------------------------------------------- commands
\* ADDTEAM team_name, the name drawn from Names
AddTeamFrom(Names) ==
    /\ pc = "idle"
    /\ \E team_name \in Names :
         IF started
         THEN /\ last' = Out("ADDTEAM", FALSE, "[Error]Add failed: competition has started.")
              /\ UNCHANGED <<teams_by_name, ref, flush_mark>>
         ELSE IF team_name \in DOMAIN teams_by_name
         THEN /\ last' = Out("ADDTEAM", FALSE, "[Error]Add failed: duplicated team name.")
              /\ UNCHANGED <<teams_by_name, ref, flush_mark>>
         ELSE /\ teams_by_name' =
                    [n \in DOMAIN teams_by_name \cup {team_name} |->
                        IF n = team_name THEN NewTeam(team_name, problem_count)
                        ELSE teams_by_name[n]]
              /\ ref' = [n \in DOMAIN ref \cup {team_name} |->
                           IF n = team_name THEN [i \in 1..problem_count |-> NewRef]
                           ELSE ref[n]]
              /\ flush_mark' = "none"
              /\ last' = Out("ADDTEAM", TRUE, "[Info]Add successfully.")
    /\ UNCHANGED <<started, frozen, duration_time, problem_count, has_flushed,
                   last_flushed_order, pc, ordered, scr>>

AddTeam == AddTeamFrom(TeamNames)

\* ADDTEAM in the specification that also runs the queries
AddTeamQ == AddTeamFrom(QueryTeamNames)

\* START DURATION duration PROBLEM prob_cnt
Start ==
    /\ pc = "idle"
    /\ \E duration \in Durations, prob_cnt \in 1..MaxProblems :
         IF started
         THEN /\ last' = Out("START", FALSE, "[Error]Start failed: competition has started.")
              /\ UNCHANGED <<started, duration_time, problem_count, teams_by_name,
                             ref, flush_mark>>
         ELSE /\ started' = TRUE
              /\ duration_time' = duration
              /\ problem_count' = prob_cnt
              /\ teams_by_name' =
                    [n \in DOMAIN teams_by_name |->
                        [teams_by_name[n] EXCEPT !.problems = NewProblems(prob_cnt)]]
              /\ ref' = [n \in DOMAIN ref |-> [i \in 1..prob_cnt |-> NewRef]]
              /\ flush_mark' = "none"
              /\ last' = Out("START", TRUE, "[Info]Competition starts.")
    /\ UNCHANGED <<frozen, has_flushed, last_flushed_order, pc, ordered, scr>>

\* Total number of submissions recorded in the teams' histories.
RECURSIVE SumLen(_, _)
SumLen(T, S) ==
    IF S = {} THEN 0
    ELSE LET x == CHOOSE y \in S : TRUE
         IN Len(T[x].all_submissions) + SumLen(T, S \ {x})

TotalSubmits == SumLen(teams_by_name, DOMAIN teams_by_name)

\* Largest timestamp the team has submitted for the problem so far (0: none).
LastTimeOf(t, problem) ==
    LET ts == {t.all_submissions[i].time : i \in
                 {j \in 1..Len(t.all_submissions) :
                     t.all_submissions[j].problem = problem}}
    IN IF ts = {} THEN 0 ELSE CHOOSE x \in ts : \A y \in ts : y <= x

\* SUBMIT problem BY team_name WITH status AT time.  The inputs are valid, as
\* the command's contract has it: a registered team, a problem of the
\* contest, timestamps non-decreasing per team and problem.  At most limit
\* submissions are made in all.
SubmitUpTo(limit) ==
    /\ pc = "idle"
    /\ TotalSubmits < limit
    /\ \E team_name \in DOMAIN teams_by_name, problem \in 0..(problem_count - 1),
          status \in Statuses, time \in 1..MaxTime :
         LET s == [problem |-> problem, status |-> status, time |-> time]
         IN /\ time >= LastTimeOf(teams_by_name[team_name], problem)
            /\ teams_by_name' =
                  [teams_by_name EXCEPT ![team_name] =
                      SubmitTeam(@, frozen, problem_count, s)]
            /\ ref' = [ref EXCEPT ![team_name][problem + 1] =
                          LiveApply(@, status, time)]
    /\ flush_mark' = IF flush_mark = "flushed" THEN "flushed_then_submit"
                     ELSE flush_mark
    /\ last' = Out("SUBMIT", TRUE, "")
    /\ UNCHANGED <<started, frozen, duration_time, problem_count, has_flushed,
                   last_flushed_order, pc, ordered, scr>>

Submit == SubmitUpTo(MaxSubmits)

\* SUBMIT in the specification of two teams, which makes one submission more
SubmitTwoTeams == SubmitUpTo(MaxSubmits + 1)

\* FLUSH
Flush ==
    /\ pc = "idle"
    /\ LET T == RebuildVisibleMetrics(teams_by_name, frozen, problem_count)
       IN /\ teams_by_name' = T
          /\ last_flushed_order' = OrderedTeamsByBoard(T)
    /\ has_flushed' = TRUE
    /\ flush_mark' = IF ~frozen THEN "none"
                     ELSE IF flush_mark = "none" THEN "flushed" ELSE flush_mark
    /\ last' = Out("FLUSH", TRUE, "[Info]Flush scoreboard.")
    /\ UNCHANGED <<started, frozen, duration_time, problem_count,
                   pc, ordered, ref, scr>>

\* A variant of FREEZE that takes its snapshot before it tests the phase.
FreezeResnap ==
    /\ pc = "idle"
    /\ teams_by_name' =
          [n \in DOMAIN teams_by_name |-> FreezeTeam(teams_by_name[n], problem_count)]
    /\ IF frozen
       THEN /\ last' = Out("FREEZE", FALSE, "[Error]Freeze failed: scoreboard has been frozen.")
            /\ UNCHANGED <<frozen, flush_mark>>
       ELSE /\ frozen' = TRUE
            /\ flush_mark' = "none"
            /\ last' = Out("FREEZE", TRUE, "[Info]Freeze scoreboard.")
    /\ UNCHANGED <<started, duration_time, problem_count, has_flushed,
                   last_flushed_order, pc, ordered, ref, scr>>

\* FREEZE
Freeze ==
    /\ pc = "idle"
    /\ IF frozen
       THEN /\ last' = Out("FREEZE", FALSE, "[Error]Freeze failed: scoreboard has been frozen.")
            /\ UNCHANGED <<frozen, teams_by_name, flush_mark>>
       ELSE /\ teams_by_name' =
                  [n \in DOMAIN teams_by_name |->
                      FreezeTeam(teams_by_name[n], problem_count)]
            /\ frozen' = TRUE
            /\ flush_mark' = "none"
            /\ last' = Out("FREEZE", TRUE, "[Info]Freeze scoreboard.")
    /\ UNCHANGED <<started, duration_time, problem_count, has_flushed,
                   last_flushed_order, pc, ordered, ref, scr>>

\* A variant of the rank-change detection that names the team that stood
\* directly above the target before the step.
RankChangeAdjacent(T, orig, new, target, idx) ==
    LET old_pos == FindPosition(orig, target)
        new_pos == FindPosition(new, target)
        base == [kind |-> "unfreeze", target |-> target, idx |-> idx,
                 emitted |-> FALSE, replaced |-> <<>>, via |-> "none",
                 solved |-> 0, penalty |-> 0]
    IN IF new_pos < old_pos
       THEN [base EXCEPT !.emitted = TRUE,
                         !.replaced = orig[old_pos],
                         !.via = "index",
                         !.solved = T[target].solved_count,
                         !.penalty = T[target].penalty_sum]
       ELSE base

\* The rank-change detection of one unfreeze step: positions of the target
\* in the order before the step (orig) and after it (new); when the target
\* moved up, the line printed names the team found in orig at the new
\* position (or, were that index invalid, the fallbacks of the code), with
\* the target's recomputed metrics.
RankChange(T, orig, new, target, idx) ==
    LET old_pos == FindPosition(orig, target)
        new_pos == FindPosition(new, target)
        base == [kind |-> "unfreeze", target |-> target, idx |-> idx,
                 emitted |-> FALSE, replaced |-> <<>>, via |-> "none",
                 solved |-> 0, penalty |-> 0]
    IN IF new_pos < old_pos
       THEN [base EXCEPT
               !.emitted = TRUE,
               !.replaced = IF new_pos >= 0 /\ new_pos < Len(orig)
                            THEN orig[new_pos + 1]
                            ELSE IF old_pos - 1 >= 0 THEN orig[old_pos]
                            ELSE target,
               !.via = IF new_pos >= 0 /\ new_pos < Len(orig) THEN "index"
                       ELSE IF old_pos - 1 >= 0 THEN "fallback"
                       ELSE "degenerate",
               !.solved = T[target].solved_count,
               !.penalty = T[target].penalty_sum]
       ELSE base

\* SCROLL: the failure, or everything scroll() does before its reveal loop.
Scroll ==
    /\ pc = "idle"
    /\ IF ~frozen
       THEN /\ last' = Out("SCROLL", FALSE, "[Error]Scroll failed: scoreboard has not been frozen.")
            /\ UNCHANGED <<has_flushed, last_flushed_order, teams_by_name, pc,
                           ordered, flush_mark, scr>>
       ELSE LET T1 == RebuildVisibleMetrics(teams_by_name, frozen, problem_count)
                T2 == [n \in DOMAIN T1 |-> RecomputeFrozen(T1[n], problem_count)]
            IN /\ last_flushed_order' = OrderedTeamsByBoard(T1)
               /\ has_flushed' = TRUE
               /\ teams_by_name' = T2
               /\ ordered' = OrderedTeamsByBoard(T2)
               /\ pc' = "loop"
               /\ flush_mark' = "none"
               /\ scr' = [NoScroll EXCEPT
                            !.at_start = FrozenPairs(teams_by_name),
                            !.board = PrintScoreboard(T1, frozen, problem_count)]
               /\ last' = Out("SCROLL", TRUE, "[Info]Scroll scoreboard.")
    /\ UNCHANGED <<started, frozen, duration_time, problem_count, ref>>

\* One iteration of the reveal loop of scroll().
ScrollStep ==
    /\ pc = "loop"
    /\ AnyFrozenExists(teams_by_name)
    /\ LET target == PickTarget(teams_by_name, ordered)
       IN IF target = <<>>
          THEN \* break
               /\ pc' = "final"
               /\ scr' = [scr EXCEPT !.iters = @ + 1,
                                     !.step = [NoStep EXCEPT !.kind = "break"]]
               /\ UNCHANGED <<teams_by_name, ordered>>
          ELSE LET chosen_idx == PickProblem(teams_by_name[target], problem_count)
               IN IF chosen_idx = -1
                  THEN \* continue
                       /\ teams_by_name' =
                             [teams_by_name EXCEPT ![target].has_frozen_problem = FALSE]
                       /\ scr' = [scr EXCEPT
                                    !.iters = @ + 1,
                                    !.step = [NoStep EXCEPT !.kind = "continue",
                                                            !.target = target]]
                       /\ UNCHANGED <<pc, ordered>>
                  ELSE LET T1 == [teams_by_name EXCEPT
                                     ![target].problems[chosen_idx + 1] = Unfreeze(@)]
                           T2 == [T1 EXCEPT
                                     ![target] = RefreshHasFrozen(@, problem_count)]
                           T3 == RebuildVisibleMetrics(T2, frozen, problem_count)
                           new == OrderedTeamsByBoard(T3)
                       IN /\ teams_by_name' = T3
                          /\ ordered' = new
                          /\ scr' = [scr EXCEPT
                                       !.iters = @ + 1,
                                       !.revealed = Append(@, <<target, chosen_idx>>),
                                       !.step = RankChange(T3, ordered, new,
                                                           target, chosen_idx)]
                          /\ UNCHANGED pc
    /\ UNCHANGED <<started, frozen, duration_time, problem_count, has_flushed,
                   last_flushed_order, last, ref, flush_mark>>

\* The per-team clearing of the frozen markers at the end of scroll().
ClearFrozen(t, n) ==
    [t EXCEPT
       !.has_frozen_problem = FALSE,
       !.problems = [i \in 1..Len(t.problems) |->
                        IF i <= n
                        THEN [t.problems[i] EXCEPT
                                !.is_frozen = FALSE,
                                !.post_freeze_submissions = <<>>]
                        ELSE t.problems[i]]]

\* A variant of the end of scroll() that leaves the frozen flag set.
ScrollEndStaysFrozen ==
    /\ \/ pc = "final"
       \/ pc = "loop" /\ ~AnyFrozenExists(teams_by_name)
    /\ last_flushed_order' = OrderedTeamsByBoard(teams_by_name)
    /\ has_flushed' = TRUE
    /\ teams_by_name' =
          [n \in DOMAIN teams_by_name |-> ClearFrozen(teams_by_name[n], problem_count)]
    /\ pc' = "idle"
    /\ ordered' = <<>>
    /\ scr' = NoScroll
    /\ UNCHANGED <<started, frozen, duration_time, problem_count, last, ref,
                   flush_mark>>

\* Everything scroll() does after its reveal loop.
ScrollEnd ==
    /\ \/ pc = "final"
       \/ pc = "loop" /\ ~AnyFrozenExists(teams_by_name)
    /\ frozen' = FALSE
    /\ last_flushed_order' = OrderedTeamsByBoard(teams_by_name)
    /\ has_flushed' = TRUE
    /\ teams_by_name' =
          [n \in DOMAIN teams_by_name |-> ClearFrozen(teams_by_name[n], problem_count)]
    /\ pc' = "idle"
    /\ ordered' = <<>>
    /\ scr' = NoScroll
    /\ UNCHANGED <<started, duration_time, problem_count, last, ref, flush_mark>>

\* A variant of the sort by name that sorts descending.
RECURSIVE InsertByNameDesc(_, _)
InsertByNameDesc(x, s) ==
    IF s = <<>> THEN <<x>>
    ELSE IF StrLess(Head(s), x) THEN <<x>> \o s
    ELSE <<Head(s)>> \o InsertByNameDesc(x, Tail(s))

\* std::sort of team pointers by name.
RECURSIVE InsertByName(_, _)
InsertByName(x, s) ==
    IF s = <<>> THEN <<x>>
    ELSE IF StrLess(x, Head(s)) THEN <<x>> \o s
    ELSE <<Head(s)>> \o InsertByName(x, Tail(s))

RECURSIVE SortByName(_)
SortByName(s) ==
    IF s = <<>> THEN <<>> ELSE InsertByName(Head(s), SortByName(Tail(s)))

\* The rank QUERY_RANKING reports for a registered team.
RankOf(team_name) ==
    LET ord == IF has_flushed THEN last_flushed_order
               ELSE SortByName(AllRawTeams(teams_by_name))
    IN FindPosition(ord, team_name) + 1

\* QUERY_RANKING team_name
QueryRanking ==
    /\ pc = "idle"
    /\ \E team_name \in TeamNames :
         IF team_name \notin DOMAIN teams_by_name
         THEN last' = Out("QUERY_RANKING", FALSE,
                          "[Error]Query ranking failed: cannot find the team.")
         ELSE last' = [Out("QUERY_RANKING", TRUE,
                           IF frozen THEN "[Info]Complete query ranking.[Warning]Scoreboard is frozen."
                           ELSE "[Info]Complete query ranking.")
                         EXCEPT !.team = team_name, !.rank = RankOf(team_name)]
    /\ UNCHANGED <<started, frozen, duration_time, problem_count, has_flushed,
                   last_flushed_order, teams_by_name, pc,
                   ordered, ref, flush_mark, scr>>

\* Problem letters, by index problem - 'A'.
Letters == <<"A", "B", "C", "D", "E", "F">>
LetterOf(idx) == Letters[idx + 1]

\* A variant of the search that returns the earliest matching entry.
FirstMatch(subs, problem, status) ==
    LET hit == {i \in 1..Len(subs) :
                  /\ problem = "ALL" \/ LetterOf(subs[i].problem) = problem
                  /\ status = "ALL" \/ subs[i].status = status}
    IN IF hit = {} THEN <<>>
       ELSE <<subs[CHOOSE i \in hit : \A j \in hit : i <= j]>>

\* The backwards search of querySubmission(): the last history entry that
\* passes both filters, as a one-element sequence; <<>> when there is none.
LastMatch(subs, problem, status) ==
    LET hit == {i \in 1..Len(subs) :
                  /\ problem = "ALL" \/ LetterOf(subs[i].problem) = problem
                  /\ status = "ALL" \/ subs[i].status = status}
    IN IF hit = {} THEN <<>>
       ELSE <<subs[CHOOSE i \in hit : \A j \in hit : j <= i]>>

\* QUERY_SUBMISSION team_name WHERE PROBLEM=problem AND STATUS=status
QuerySubmission ==
    /\ pc = "idle"
    /\ \E team_name \in TeamNames,
          problem \in {"ALL"} \cup {LetterOf(i) : i \in 0..(MaxProblems - 1)},
          status \in {"ALL"} \cup Statuses :
         IF team_name \notin DOMAIN teams_by_name
         THEN last' = Out("QUERY_SUBMISSION", FALSE,
                          "[Error]Query submission failed: cannot find the team.")
         ELSE LET m == LastMatch(teams_by_name[team_name].all_submissions,
                                 problem, status)
              IN last' = [Out("QUERY_SUBMISSION", TRUE,
                              IF m = <<>>
                              THEN "[Info]Complete query submission.Cannot find any submission."
                              ELSE "[Info]Complete query submission.")
                            EXCEPT !.team = team_name, !.problem = problem,
                                   !.status = status, !.sub = m]
    /\ UNCHANGED <<started, frozen, duration_time, problem_count, has_flushed,
                   last_flushed_order, teams_by_name, pc,
                   ordered, ref, flush_mark, scr>>

\* The scoreboard commands.  END stops the command loop: a behaviour that
\* stutters forever.  The two queries change no variable of the program;
\* they run in SpecQ.
Next ==
    \/ AddTeam
    \/ Start
    \/ Submit
    \/ Flush
    \/ Freeze
    \/ Scroll
    \/ ScrollStep
    \/ ScrollEnd

Spec == Init /\ [][Next]_vars

\* All commands, the queries included, over the teams of QueryTeamNames.
NextQ ==
    \/ AddTeamQ
    \/ Start
    \/ Submit
    \/ Flush
    \/ Freeze
    \/ Scroll
    \/ ScrollStep
    \/ ScrollEnd
    \/ QueryRanking
    \/ QuerySubmission

SpecQ == Init /\ [][NextQ]_vars

\* The scoreboard commands over the teams of QueryTeamNames, with one
\* submission more than in Spec.
NextTwoTeams ==
    \/ AddTeamQ
    \/ Start
    \/ SubmitTwoTeams
    \/ Flush
    \/ Freeze
    \/ Scroll
    \/ ScrollStep
    \/ ScrollEnd

SpecTwoTeams == Init /\ [][NextTwoTeams]_vars

\* ------------------------------------------------- the comparator alone
\* Solve-time lists of length at most MaxProblems over the timestamps.
TimeLists ==
    UNION {[1..k -> 1..MaxTime] : k \in 0..MaxProblems}

\* Any three teams with the three names and arbitrary visible metrics.
InitCmp ==
    /\ started = TRUE
    /\ frozen = FALSE
    /\ duration_time = 0
    /\ problem_count = 0
    /\ has_flushed = FALSE
    /\ last_flushed_order = <<>>
    /\ teams_by_name \in
          [TeamNames -> [name : TeamNames,
                         problems : {<<>>},
                         solved_count : 0..1,
                         penalty_sum : 0..1,
                         solve_times_sorted_desc : TimeLists,
                         has_frozen_problem : {FALSE},
                         all_submissions : {<<>>}]]
    /\ \A n \in TeamNames : teams_by_name[n].name = n
    /\ pc = "cmp"
    /\ ordered = <<>>
    /\ last = Out("none", TRUE, "")
    /\ ref = [n \in TeamNames |-> <<>>]
    /\ flush_mark = "none"
    /\ scr = NoScroll

\* getOrderedTeamsByBoard() applied to the three teams.
CmpSort ==
    /\ pc = "cmp"
    /\ ordered' = OrderedTeamsByBoard(teams_by_name)
    /\ pc' = "sorted"
    /\ UNCHANGED <<started, frozen, duration_time, problem_count, has_flushed,
                   last_flushed_order, teams_by_name, last, ref, flush_mark, scr>>

SpecCmp == InitCmp /\ [][CmpSort]_vars

\* ================================================================ claims
\* Helpers of the properties, computed from the problem records directly.
RECURSIVE SumOver(_, _)
SumOver(f, S) ==
    IF S = {} THEN 0
    ELSE LET x == CHOOSE y \in S : TRUE IN f[x] + SumOver(f, S \ {x})

\* Problems of a record sequence that hold an acceptance.
AcceptedIn(r) == {i \in 1..Len(r) : r[i].first_ac_time # NoTime}

\* Solved count and penalty of a sequence of records, all of them visible.
PlainSolved(r) == Cardinality(AcceptedIn(r))
PlainPenalty(r) ==
    SumOver([i \in AcceptedIn(r) |->
                PenaltyPerWrong * r[i].wrong_before_accept + r[i].first_ac_time],
            AcceptedIn(r))

\* Problems of team t that hold an acceptance and are not hidden by freeze,
\* frz being the frozen flag.
VisibleSolvedSet(t, frz) ==
    {i \in 1..Len(t.problems) :
        /\ t.problems[i].first_ac_time # NoTime
        /\ ~(frz /\ t.problems[i].is_frozen)}

\* The penalty those problems add up to.
VisiblePenalty(t, frz) ==
    SumOver([i \in VisibleSolvedSet(t, frz) |->
                PenaltyPerWrong * t.problems[i].wrong_before_accept
                  + t.problems[i].first_ac_time],
            VisibleSolvedSet(t, frz))

\* A SCROLL has just completed.
ScrollDone == pc = "idle" /\ last.cmd = "SCROLL" /\ last.ok

\* The visible board: every team's metrics, and the snapshot.
Visible ==
    <<[n \in DOMAIN teams_by_name |->
          <<teams_by_name[n].solved_count, teams_by_name[n].penalty_sum,
            teams_by_name[n].solve_times_sorted_desc>>],
      last_flushed_order>>

\* 1-based position of x in the sequence ord (0 when absent).
PosIn(ord, x) ==
    IF \E i \in 1..Len(ord) : ord[i] = x
    THEN CHOOSE i \in 1..Len(ord) : ord[i] = x
    ELSE 0

\* The elements of a sequence.
Range(q) == {q[i] : i \in 1..Len(q)}

\* ---- C1
\* C1: immediately after a completed SCROLL, every team's solved count and
\* penalty equal those of the board that applied all its submissions with
\* the live rule and never froze.
C1_RoundTrip ==
    ScrollDone =>
        \A n \in DOMAIN teams_by_name :
            /\ teams_by_name[n].solved_count = PlainSolved(ref[n])
            /\ teams_by_name[n].penalty_sum = PlainPenalty(ref[n])

\* A scroll has completed that replayed a rejection followed by an
\* acceptance, both captured during the freeze.
C1_Witness ==
    /\ ScrollDone
    /\ \E n \in DOMAIN teams_by_name : \E i \in 1..problem_count :
          LET ps == teams_by_name[n].problems[i]
          IN /\ ~ps.solved_before_freeze
             /\ ps.first_ac_time # NoTime
             /\ ps.wrong_before_freeze = 0
             /\ ps.wrong_before_accept = 1
             /\ teams_by_name[n].penalty_sum >= PenaltyPerWrong

\* ---- C2
\* While scroll() runs it is inside its loop (the break is never taken);
\* the iterations made so far are at most teams x problems; every iteration
\* revealed one pair; no pair was revealed twice; the pairs revealed so far
\* together with the pairs still frozen are exactly the pairs frozen when the
\* scroll started; and when the loop exits every one of those has been
\* revealed.
ScrollLoopInv ==
    pc # "idle" =>
        /\ pc = "loop"
        /\ scr.iters <= Cardinality(DOMAIN teams_by_name) * problem_count
        /\ scr.iters = Len(scr.revealed)
        /\ \A i, j \in 1..Len(scr.revealed) :
              i # j => scr.revealed[i] # scr.revealed[j]
        /\ Range(scr.revealed) \cap FrozenPairs(teams_by_name) = {}
        /\ Range(scr.revealed) \cup FrozenPairs(teams_by_name) = scr.at_start
        /\ ~AnyFrozenExists(teams_by_name) => Range(scr.revealed) = scr.at_start

\* C2: a SCROLL issued while Frozen terminates, within teams x problems
\* iterations, having unfrozen every pair frozen at its start exactly once:
\* the loop invariant holds, and every step of a running scroll either ends
\* it or leaves strictly fewer frozen pairs (the loop's variant), so that
\* the loop, whose body and epilogue are always executable, must exit.
C2_Terminates ==
    /\ []ScrollLoopInv
    /\ [][pc = "loop" =>
            \/ pc' = "idle" /\ FrozenPairs(teams_by_name) = {}
            \/ /\ pc' = "loop"
               /\ Cardinality(FrozenPairs(teams_by_name'))
                     < Cardinality(FrozenPairs(teams_by_name))]_vars

\* A scroll is about to exit its loop after revealing two pairs.
C2_Witness ==
    /\ pc = "loop"
    /\ ~AnyFrozenExists(teams_by_name)
    /\ Len(scr.revealed) = 2
    /\ Cardinality(scr.at_start) = 2

\* ---- C3
\* One unfreeze step has just been taken.
UnfreezeStep == pc = "loop" /\ scr'.iters = scr.iters + 1

\* C3: in every unfreeze step a rank-change line is printed exactly when the
\* revealed team stands strictly earlier in the new order than in the order
\* before the step; the replaced team it names is the one that stood at the
\* new position in the order before the step, found by the index lookup and
\* never by a fallback, and the metrics it prints are the team's recomputed
\* ones.
C3_RankChange ==
    [][UnfreezeStep =>
        LET st == scr'.step
            tgt == st.target
            old_pos == PosIn(ordered, tgt)
            new_pos == PosIn(ordered', tgt)
            t == teams_by_name'[tgt]
        IN /\ st.kind = "unfreeze"
           /\ old_pos >= 1 /\ new_pos >= 1
           /\ st.emitted <=> new_pos < old_pos
           /\ st.emitted =>
                 /\ st.via = "index"
                 /\ st.replaced = ordered[new_pos]
                 /\ st.solved = Cardinality(VisibleSolvedSet(t, frozen))
                 /\ st.penalty = VisiblePenalty(t, frozen)
                 /\ st.solved = t.solved_count
                 /\ st.penalty = t.penalty_sum]_vars

\* A reveal has just moved a team from the last of three places to the first.
C3_Witness ==
    /\ pc = "loop"
    /\ scr.step.emitted
    /\ Len(ordered) = 3
    /\ ordered[1] = scr.step.target
    /\ ordered[2] = scr.step.replaced
    /\ scr.step.solved = 1

\* ---- C4
\* C4: over teams with distinct names the comparator is a strict total
\* order: irreflexive, antisymmetric, transitive, and of two distinct teams
\* exactly one outranks the other; the order std::sort produces with it has
\* every team outrank all the teams behind it.
C4_StrictTotalOrder ==
    LET T == teams_by_name
        D == DOMAIN teams_by_name
    IN /\ \A a \in D : ~BoardLess(T[a], T[a])
       /\ \A a, b \in D : ~(BoardLess(T[a], T[b]) /\ BoardLess(T[b], T[a]))
       /\ \A a, b, c \in D :
             BoardLess(T[a], T[b]) /\ BoardLess(T[b], T[c]) => BoardLess(T[a], T[c])
       /\ \A a, b \in D : a # b => (BoardLess(T[a], T[b]) \/ BoardLess(T[b], T[a]))
       /\ pc = "sorted" =>
             \A i, j \in 1..Len(ordered) :
                i < j => BoardLess(T[ordered[i]], T[ordered[j]])

\* Three teams have been sorted, two of which tie on solved count, penalty
\* and solve times and are told apart by their names only, while the third
\* differs from them in the solve times only.
C4_Witness ==
    /\ pc = "sorted"
    /\ Len(ordered) = 3
    /\ \E a, b, c \in DOMAIN teams_by_name :
          /\ a # b
          /\ teams_by_name[a].solved_count = teams_by_name[b].solved_count
          /\ teams_by_name[a].penalty_sum = teams_by_name[b].penalty_sum
          /\ teams_by_name[a].solve_times_sorted_desc
                = teams_by_name[b].solve_times_sorted_desc
          /\ teams_by_name[c].solved_count = teams_by_name[a].solved_count
          /\ teams_by_name[c].penalty_sum = teams_by_name[a].penalty_sum
          /\ Len(teams_by_name[c].solve_times_sorted_desc)
                < Len(teams_by_name[a].solve_times_sorted_desc)

\* ---- C5
\* A FLUSH or a SCROLL has just completed.
BoardJustRebuilt == pc = "idle" /\ last.cmd \in {"FLUSH", "SCROLL"} /\ last.ok

\* The stored solved count of every team is the number of its problems that
\* hold an acceptance and are not hidden by freeze.
SolvedCountsCurrent ==
    \A n \in DOMAIN teams_by_name :
        teams_by_name[n].solved_count
            = Cardinality(VisibleSolvedSet(teams_by_name[n], frozen))

\* C5 as claimed: between any two commands every team's stored solved count
\* is the number of its problems with an acceptance not hidden by freeze.
C5_AsClaimed == pc = "idle" => SolvedCountsCurrent

\* C5 as amended: immediately after a FLUSH and immediately after a
\* completed SCROLL every team's stored solved count is the number of its
\* problems with an acceptance not hidden by freeze.
C5_SolvedCountAfterRebuild == BoardJustRebuilt => SolvedCountsCurrent

\* A FLUSH during a freeze has just counted the one problem a team solved
\* before the freeze, while an acceptance of another problem lies captured.
C5_Witness ==
    /\ BoardJustRebuilt
    /\ last.cmd = "FLUSH"
    /\ frozen
    /\ \E n \in DOMAIN teams_by_name :
          /\ teams_by_name[n].solved_count = 1
          /\ \E i \in 1..problem_count :
                LET ps == teams_by_name[n].problems[i]
                IN /\ ps.is_frozen
                   /\ \E k \in 1..Len(ps.post_freeze_submissions) :
                         IsAc(ps.post_freeze_submissions[k].status)

\* ---- C6
\* C6: within one Frozen phase, a FLUSH that follows an earlier FLUSH of the
\* same phase, with only SUBMITs (and commands that change nothing) between
\* them, leaves every team's solved count, penalty and solve-time list and
\* the snapshot order exactly as the earlier FLUSH left them.
C6_FrozenFlushStable ==
    [][pc = "idle" /\ frozen /\ flush_mark # "none" /\ last'.cmd = "FLUSH"
          => Visible' = Visible]_vars

\* A second FLUSH of a Frozen phase has been executed after a SUBMIT of an
\* acceptance that followed the first one and was captured.
C6_Witness ==
    /\ pc = "idle"
    /\ frozen
    /\ flush_mark = "flushed_then_submit"
    /\ last.cmd = "FLUSH"
    /\ \E n \in DOMAIN teams_by_name : \E i \in 1..problem_count :
          LET b == teams_by_name[n].problems[i].post_freeze_submissions
          IN b # <<>> /\ IsAc(b[Len(b)].status)

\* ---- C7
\* C7: a FLUSH executed right after a FLUSH changes nothing: not the visible
\* metrics of any team, not the snapshot, not any problem record.
C7_FlushIdempotent ==
    [][pc = "idle" /\ last.cmd = "FLUSH" /\ last'.cmd = "FLUSH"
          => UNCHANGED progState]_vars

\* A FLUSH has been executed on a board where two teams have solved
\* something and the snapshot does not list them in name order.
C7_Witness ==
    /\ pc = "idle"
    /\ last.cmd = "FLUSH"
    /\ Len(last_flushed_order) >= 2
    /\ StrLess(last_flushed_order[2], last_flushed_order[1])
    /\ \A i \in 1..2 : teams_by_name[last_flushed_order[i]].solved_count >= 1

\* ---- C8
\* C8: a command that fails changes nothing of the program's state, and it
\* fails exactly in the listed case: FREEZE when frozen, SCROLL when not
\* frozen, START and ADDTEAM when started, ADDTEAM with a registered name,
\* a query for a team that is not registered.
C8_FailureChangesNothing ==
    [][~last'.ok =>
          /\ UNCHANGED <<progState, pc, ordered>>
          /\ pc = "idle"
          /\ last'.cmd = "FREEZE" => frozen
          /\ last'.cmd = "SCROLL" => ~frozen
          /\ last'.cmd = "START" => started
          /\ last'.cmd = "ADDTEAM" =>
                IF last'.msg = "[Error]Add failed: competition has started."
                THEN started
                ELSE ~started /\ DOMAIN teams_by_name # {}
          /\ last'.cmd \in {"QUERY_RANKING", "QUERY_SUBMISSION"} =>
                DOMAIN teams_by_name # TeamNames
          /\ last'.cmd \in {"FREEZE", "SCROLL", "START", "ADDTEAM",
                            "QUERY_RANKING", "QUERY_SUBMISSION"}]_vars

\* A FREEZE has just failed while a captured submission sits in a buffer.
C8_Witness ==
    /\ last.cmd = "FREEZE"
    /\ ~last.ok
    /\ frozen
    /\ \E n \in DOMAIN teams_by_name : \E i \in 1..problem_count :
          teams_by_name[n].problems[i].post_freeze_submissions # <<>>

\* ---- C9
\* C9: FREEZE succeeds exactly when the board is not frozen and leaves it
\* frozen; SCROLL succeeds exactly when the board is frozen, and the board
\* stays frozen until the scroll completes and is not frozen then; nothing
\* else changes the frozen flag, which is unset at the start.  Successful
\* FREEZEs and completed SCROLLs therefore alternate, FREEZE first.
C9_FreezeScrollAlternate ==
    /\ ~frozen
    /\ [][/\ (pc = "idle" /\ last'.cmd = "FREEZE") =>
                (last'.ok <=> ~frozen) /\ frozen'
          /\ (pc = "idle" /\ last'.cmd = "SCROLL") =>
                /\ last'.ok <=> frozen
                /\ last'.ok <=> pc' # "idle"
                /\ frozen' = frozen
          /\ (pc # "idle" /\ pc' # "idle") => frozen /\ frozen'
          /\ (pc # "idle" /\ pc' = "idle") => frozen /\ ~frozen'
          /\ frozen' # frozen =>
                \/ pc = "idle" /\ last'.cmd = "FREEZE" /\ last'.ok
                \/ pc # "idle" /\ pc' = "idle"]_vars

\* A FREEZE succeeded after a rejection, the SCROLL that followed has
\* completed, and a second SCROLL has just failed.
C9_Witness ==
    /\ pc = "idle"
    /\ ~frozen
    /\ last.cmd = "SCROLL"
    /\ ~last.ok
    /\ \E n \in DOMAIN teams_by_name : \E i \in 1..problem_count :
          teams_by_name[n].problems[i].wrong_before_freeze >= 1

\* ---- C10
\* C10: the frozen flag is never set while the competition has not started.
C10_NoFreezeBeforeStart == ~(frozen /\ ~started)

\* ---- C11
\* A QUERY_RANKING has just answered for a registered team.
RankingAnswered == pc = "idle" /\ last.cmd = "QUERY_RANKING" /\ last.ok

\* C11: once a FLUSH or SCROLL has occurred, the rank QUERY_RANKING reports
\* for a team is the team's 1-based position in the snapshot order (so the
\* team has a position there).
C11_RankFromSnapshot ==
    (RankingAnswered /\ has_flushed) =>
        /\ PosIn(last_flushed_order, last.team) # 0
        /\ last.rank = PosIn(last_flushed_order, last.team)

\* ---- C12
\* Number of registered teams whose name is smaller than team_name.
NamesBefore(team_name) ==
    Cardinality({m \in DOMAIN teams_by_name : StrLess(m, team_name)})

ProblemLog(t, p) ==
    LET OfProblem(s) == s.problem = p
    IN SelectSeq(t.all_submissions, OfProblem)

\* Index of the first acceptance in the sequence b, 0 when there is none.
FirstAc(b) ==
    LET hit == {i \in 1..Len(b) : IsAc(b[i].status)}
    IN IF hit = {} THEN 0 ELSE CHOOSE i \in hit : \A j \in hit : i <= j

\* Problems (0-based) team t has an acceptance for in its history.
LogSolvedSet(t) ==
    {p \in 0..(problem_count - 1) : FirstAc(ProblemLog(t, p)) # 0}

\* 20 x rejections before the first acceptance + its time, from the history.
LogPenaltyOf(t, p) ==
    LET b == ProblemLog(t, p)
        k == FirstAc(b)
    IN PenaltyPerWrong * Cardinality({i \in 1..(k - 1) : IsWrong(b[i].status)})
         + b[k].time

LogPenalty(t) ==
    SumOver([p \in LogSolvedSet(t) |-> LogPenaltyOf(t, p)], LogSolvedSet(t))

\* The sequence ord lists every team of T once, each team outranking all
\* that follow it.
SortedByBoard(T, ord) ==
    /\ Len(ord) = Cardinality(DOMAIN T)
    /\ Range(ord) = DOMAIN T
    /\ \A i, j \in 1..Len(ord) : i < j => BoardLess(T[ord[i]], T[ord[j]])

\* A FLUSH has just completed in the Live phase.
LiveFlushDone == pc = "idle" /\ last.cmd = "FLUSH" /\ started /\ ~frozen

\* C13: immediately after a FLUSH in the Live phase every team's solved
\* count and penalty are those of its history (per solved problem 20 x the
\* rejections before the first acceptance + the time of that acceptance)
\* and the snapshot lists the teams sorted by the comparator on them.
C13_LiveFlushMetrics ==
    LiveFlushDone =>
        /\ \A n \in DOMAIN teams_by_name :
              /\ teams_by_name[n].solved_count
                    = Cardinality(LogSolvedSet(teams_by_name[n]))
              /\ teams_by_name[n].penalty_sum = LogPenalty(teams_by_name[n])
        /\ SortedByBoard(teams_by_name, last_flushed_order)

\* The scenario of the claim with timestamps 1 and 2: team "a" was rejected
\* at 1 and accepted at 2 (penalty 22), team "aa" was accepted at 1
\* (penalty 1); after the FLUSH "aa" is first and "a" second.
C13_Witness ==
    /\ LiveFlushDone
    /\ DOMAIN teams_by_name = {<<1>>, <<1, 1>>}
    /\ teams_by_name[<<1>>].all_submissions =
          <<[problem |-> 0, status |-> "Wrong_Answer", time |-> 1],
            [problem |-> 0, status |-> "Accepted", time |-> 2]>>
    /\ teams_by_name[<<1, 1>>].all_submissions =
          <<[problem |-> 0, status |-> "Accepted", time |-> 1]>>
    /\ teams_by_name[<<1>>].penalty_sum = PenaltyPerWrong + 2
    /\ teams_by_name[<<1, 1>>].penalty_sum = 1
    /\ last_flushed_order = <<<<1, 1>>, <<1>>>>

\* ---- C14
\* The cell text "0/y" or "-x/y".
FrozenCellText(x, y) == IF x = 0 THEN <<"0/", y>> ELSE <<"-", x, "/", y>>

\* Every problem hidden by freeze would be printed with x its current
\* wrong_before_accept and y >= 1 the length of its capture buffer.
HiddenCellsInv ==
    \A n \in DOMAIN teams_by_name :
        \A i \in 1..Len(teams_by_name[n].problems) :
            LET ps == teams_by_name[n].problems[i]
            IN (frozen /\ ps.is_frozen) =>
                  /\ Len(ps.post_freeze_submissions) >= 1
                  /\ ps.wrong_before_freeze = ps.wrong_before_accept
                  /\ Cell(ps, frozen) =
                        FrozenCellText(ps.wrong_before_accept,
                                       Len(ps.post_freeze_submissions))

\* The board SCROLL has just printed before its loop shows exactly that
\* for every problem frozen at that moment.
PrintedCellsInv ==
    (pc = "loop" /\ scr.iters = 0) =>
        \A r \in 1..Len(scr.board) :
            LET t == teams_by_name[scr.board[r].name]
            IN \A i \in 1..problem_count :
                  t.problems[i].is_frozen =>
                     scr.board[r].cells[i] =
                        FrozenCellText(t.problems[i].wrong_before_accept,
                                       Len(t.problems[i].post_freeze_submissions))

\* C14: whenever a problem is hidden by freeze, the y of its board cell is
\* the number of submissions in its capture buffer (at least 1) and the x
\* is its wrong_before_accept as recorded by the FREEZE, which is still its
\* current wrong_before_accept.
C14_FrozenCell ==
    /\ [](HiddenCellsInv /\ PrintedCellsInv)
    /\ [][(~frozen /\ frozen') =>
            \A n \in DOMAIN teams_by_name' :
                \A i \in 1..Len(teams_by_name'[n].problems) :
                    teams_by_name'[n].problems[i].wrong_before_freeze
                        = teams_by_name[n].problems[i].wrong_before_accept]_vars

\* SCROLL has just printed the cell 0/1 for a problem with no rejection
\* whose only submission after the FREEZE is an acceptance.
C14_Witness ==
    /\ pc = "loop"
    /\ scr.iters = 0
    /\ \E r \in 1..Len(scr.board) : \E i \in 1..problem_count :
          LET ps == teams_by_name[scr.board[r].name].problems[i]
          IN /\ scr.board[r].cells[i] = <<"0/", 1>>
             /\ ps.wrong_before_accept = 0
             /\ Len(ps.post_freeze_submissions) = 1
             /\ ps.post_freeze_submissions[1].status = "Accepted"

\* ---- C15
\* The step appends exactly one submission to the history of exactly one
\* team and leaves every other history as it is.
OneHistoryGrows ==
    /\ DOMAIN teams_by_name' = DOMAIN teams_by_name
    /\ \E n \in DOMAIN teams_by_name :
          LET h == teams_by_name[n].all_submissions
              g == teams_by_name'[n].all_submissions
          IN /\ Len(g) = Len(h) + 1
             /\ SubSeq(g, 1, Len(h)) = h
             /\ \A m \in DOMAIN teams_by_name \ {n} :
                   teams_by_name'[m].all_submissions
                       = teams_by_name[m].all_submissions

\* No history changes in the step.
HistoriesKept ==
    \A n \in DOMAIN teams_by_name :
        teams_by_name'[n].all_submissions = teams_by_name[n].all_submissions

\* Indices of the entries of history h that pass the filters of the last
\* QUERY_SUBMISSION.
Matching(h) ==
    {i \in 1..Len(h) :
        /\ last.problem = "ALL" \/ last.problem = LetterOf(h[i].problem)
        /\ last.status = "ALL" \/ last.status = h[i].status}

\* The last QUERY_SUBMISSION answered with the latest-arrived matching
\* entry of the team's history, or with the not-found line.
SubmissionAnswerRight ==
    (pc = "idle" /\ last.cmd = "QUERY_SUBMISSION" /\ last.ok) =>
        LET h == teams_by_name[last.team].all_submissions
        IN IF Matching(h) = {}
           THEN /\ last.sub = <<>>
                /\ last.msg = "[Info]Complete query submission.Cannot find any submission."
           ELSE /\ last.msg = "[Info]Complete query submission."
                /\ \E i \in Matching(h) :
                      /\ \A j \in Matching(h) : j <= i
                      /\ last.sub = <<h[i]>>

\* C15: every SUBMIT appends its submission to the team's history, in any
\* phase, and nothing else changes a history; QUERY_SUBMISSION answers with
\* the latest-arrived entry that passes both filters (ALL passes anything)
\* or with "Cannot find any submission." when none does, and changes no
\* state.
C15_HistoryAndQuery ==
    /\ []SubmissionAnswerRight
    /\ [][/\ last'.cmd = "SUBMIT" => OneHistoryGrows
          /\ last'.cmd # "SUBMIT" => HistoriesKept
          /\ last'.cmd = "QUERY_SUBMISSION" => UNCHANGED <<progState, pc>>]_vars

\* A team's history holds two rejections of problem A, the later one made
\* during the freeze and captured, and the query for rejections of A has
\* answered with the later one.
C15_Witness ==
    /\ pc = "idle"
    /\ last.cmd = "QUERY_SUBMISSION"
    /\ last.ok
    /\ frozen
    /\ last.problem = "A"
    /\ last.status = "Wrong_Answer"
    /\ LET t == teams_by_name[last.team]
       IN /\ Len(t.all_submissions) = 2
          /\ t.all_submissions[1] = [problem |-> 0, status |-> "Wrong_Answer", time |-> 1]
          /\ t.all_submissions[2] = [problem |-> 0, status |-> "Wrong_Answer", time |-> 2]
          /\ t.problems[1].post_freeze_submissions = <<t.all_submissions[2]>>
          /\ last.sub = <<t.all_submissions[2]>>

\* ---- C16
\* Teams with at least one problem whose is_frozen flag is set.
TeamsWithFrozen(T) == {n \in DOMAIN T : \E pr \in FrozenPairs(T) : pr[1] = n}

\* C16: in every unfreeze step the current order is the board order of the
\* current metrics, the revealed team is ranked below every other team that
\* still has a frozen problem, and the revealed problem is that team's
\* frozen problem with the smallest index.
C16_LowestTeamSmallestProblem ==
    [][UnfreezeStep =>
        LET st == scr'.step
            T == teams_by_name
        IN /\ st.kind = "unfreeze"
           /\ SortedByBoard(T, ordered)
           /\ st.target \in TeamsWithFrozen(T)
           /\ \A m \in TeamsWithFrozen(T) \ {st.target} :
                 /\ PosIn(ordered, m) < PosIn(ordered, st.target)
                 /\ BoardLess(T[m], T[st.target])
           /\ <<st.target, st.idx>> \in FrozenPairs(T)
           /\ \A pr \in FrozenPairs(T) : pr[1] = st.target => st.idx <= pr[2]
           /\ <<st.target, st.idx>> \notin FrozenPairs(teams_by_name')
           /\ FrozenPairs(teams_by_name')
                 = FrozenPairs(T) \ {<<st.target, st.idx>>}]_vars

\* Two teams have frozen problems, the lower-ranked of them two, and the
\* step has just revealed the lower-ranked team's first problem.
C16_Witness ==
    /\ pc = "loop"
    /\ scr.iters = 1
    /\ scr.step.kind = "unfreeze"
    /\ Cardinality({pr[1] : pr \in scr.at_start}) = 2
    /\ Cardinality(scr.at_start) = 3
    /\ scr.step.idx = 0
    /\ <<scr.step.target, 1>> \in FrozenPairs(teams_by_name)
    /\ scr.step.target = ordered[Len(ordered)]

\* ---- C17
\* The step is a SUBMIT by team n (its history grows by one entry).
SubmitStepOf(n) ==
    /\ last'.cmd = "SUBMIT"
    /\ n \in DOMAIN teams_by_name
    /\ Len(teams_by_name'[n].all_submissions)
          = Len(teams_by_name[n].all_submissions) + 1

\* The capture buffers of all problems of all teams.
Buffers(T) ==
    [n \in DOMAIN T |->
        [i \in 1..Len(T[n].problems) |-> T[n].problems[i].post_freeze_submissions]]

\* C17: a SUBMIT made while frozen on a problem not solved before the
\* freeze appends the submission at the end of the problem's capture buffer
\* and changes nothing else of the problem than its freeze bookkeeping: not
\* its first_ac_time nor its wrong_before_accept, no other problem record,
\* no other team, no visible metric, not the snapshot.  A FREEZE leaves
\* every buffer empty and, while frozen, no other command changes a buffer;
\* so a buffer is the pair's submissions since the FREEZE in arrival order.
C17_CaptureAppends ==
    [][/\ \A n \in DOMAIN teams_by_name :
             (SubmitStepOf(n) /\ frozen) =>
                LET g == teams_by_name'[n].all_submissions
                    s == g[Len(g)]
                    p == s.problem + 1
                    old == teams_by_name[n].problems[p]
                    new == teams_by_name'[n].problems[p]
                IN ~old.solved_before_freeze =>
                      /\ new.post_freeze_submissions
                            = Append(old.post_freeze_submissions, s)
                      /\ new.first_ac_time = old.first_ac_time
                      /\ new.wrong_before_accept = old.wrong_before_accept
                      /\ new.wrong_before_freeze = old.wrong_before_freeze
                      /\ new.solved_before_freeze = old.solved_before_freeze
                      /\ \A i \in 1..problem_count : i # p =>
                            teams_by_name'[n].problems[i]
                                = teams_by_name[n].problems[i]
                      /\ \A m \in DOMAIN teams_by_name \ {n} :
                            teams_by_name'[m] = teams_by_name[m]
                      /\ Visible' = Visible
                      /\ UNCHANGED <<has_flushed, frozen, started, problem_count>>
       /\ (~frozen /\ frozen') =>
             \A n \in DOMAIN teams_by_name' :
                \A i \in 1..Len(teams_by_name'[n].problems) :
                   teams_by_name'[n].problems[i].post_freeze_submissions = <<>>
       /\ (frozen /\ pc = "idle" /\ pc' = "idle"
              /\ last'.cmd \notin {"SUBMIT", "ADDTEAM", "START"}) =>
             Buffers(teams_by_name') = Buffers(teams_by_name)
       /\ (frozen /\ last'.cmd \in {"ADDTEAM", "START"}) =>
             \A n \in DOMAIN teams_by_name :
                \A i \in 1..Len(teams_by_name[n].problems) :
                   Len(teams_by_name'[n].problems) >= i =>
                      teams_by_name'[n].problems[i].post_freeze_submissions
                         = teams_by_name[n].problems[i].post_freeze_submissions]_vars

\* A rejection and then an acceptance of the same problem, both at time 1,
\* have been captured: the buffer holds them in that order.
C17_Witness ==
    /\ pc = "idle"
    /\ frozen
    /\ last.cmd = "SUBMIT"
    /\ \E n \in DOMAIN teams_by_name : \E i \in 1..problem_count :
          LET ps == teams_by_name[n].problems[i]
          IN /\ ps.post_freeze_submissions =
                   <<[problem |-> i - 1, status |-> "Wrong_Answer", time |-> 1],
                     [problem |-> i - 1, status |-> "Accepted", time |-> 1]>>
             /\ ps.first_ac_time = NoTime
             /\ ps.wrong_before_accept = 0

\* ---- C18
\* The scoring fields of a problem record.
Score(ps) == <<ps.first_ac_time, ps.wrong_before_accept>>

\* Number of rejections among the first k entries of the sequence b.
WrongAmong(b, k) == Cardinality({i \in 1..k : IsWrong(b[i].status)})

\* The scoring fields after the entries of b have been applied, in order,
\* to an unsolved problem with w rejections: the first acceptance gives the
\* time, the rejections before it are added.
ScoreAfter(w, b) ==
    IF FirstAc(b) = 0 THEN <<NoTime, w + WrongAmong(b, Len(b))>>
    ELSE <<b[FirstAc(b)].time, w + WrongAmong(b, FirstAc(b) - 1)>>

\* C18: no step changes first_ac_time or wrong_before_accept of a problem
\* whose first_ac_time is present.  For an unsolved problem, a SUBMIT
\* applied live adds one to wrong_before_accept when it is a rejection and
\* sets first_ac_time to its timestamp when it is an acceptance; a reveal of
\* SCROLL applies the captured submissions in the same way, in order; a
\* captured SUBMIT and every other step leave both fields as they are.
C18_FirstAcceptFinal ==
    [][\A n \in DOMAIN teams_by_name :
          \A i \in 1..Len(teams_by_name[n].problems) :
             LET old == teams_by_name[n].problems[i]
                 new == teams_by_name'[n].problems[i]
                 g == teams_by_name'[n].all_submissions
                 s == g[Len(g)]
             IN /\ n \in DOMAIN teams_by_name'
                /\ Len(teams_by_name'[n].problems) >= i
                /\ Solved(old) => Score(new) = Score(old)
                /\ ~Solved(old) =>
                      IF SubmitStepOf(n) /\ s.problem = i - 1
                      THEN IF frozen
                           THEN Score(new) = Score(old)
                           ELSE Score(new)
                                   = ScoreAfter(old.wrong_before_accept, <<s>>)
                      ELSE IF UnfreezeStep /\ scr'.step.target = n
                                           /\ scr'.step.idx = i - 1
                      THEN Score(new)
                              = ScoreAfter(old.wrong_before_accept,
                                           old.post_freeze_submissions)
                      ELSE Score(new) = Score(old)]_vars

\* A problem accepted at time 1 has just received a second acceptance at
\* time 2 and still holds the first one.
C18_Witness ==
    /\ pc = "idle"
    /\ last.cmd = "SUBMIT"
    /\ \E n \in DOMAIN teams_by_name : \E i \in 1..problem_count :
          /\ teams_by_name[n].all_submissions =
                <<[problem |-> i - 1, status |-> "Accepted", time |-> 1],
                  [problem |-> i - 1, status |-> "Accepted", time |-> 2]>>
          /\ teams_by_name[n].problems[i].first_ac_time = 1
          /\ teams_by_name[n].problems[i].wrong_before_accept = 0

\* ---- C19
\* C19: between commands, is_frozen of a problem is set exactly when its
\* solved_before_freeze is unset and its capture buffer is non-empty; and
\* in every state a team whose has_frozen_problem is set has a problem
\* whose is_frozen is set.
C19_FrozenFlagDerived ==
    /\ pc = "idle" =>
          \A n \in DOMAIN teams_by_name :
             \A i \in 1..Len(teams_by_name[n].problems) :
                LET ps == teams_by_name[n].problems[i]
                IN ps.is_frozen <=>
                      (~ps.solved_before_freeze /\ ps.post_freeze_submissions # <<>>)
    /\ \A n \in DOMAIN teams_by_name :
          teams_by_name[n].has_frozen_problem =>
             \E i \in 1..Len(teams_by_name[n].problems) :
                teams_by_name[n].problems[i].is_frozen

\* Between commands, one team holds a frozen problem with a captured
\* submission and a problem solved before the freeze that is not frozen.
C19_Witness ==
    /\ pc = "idle"
    /\ frozen
    /\ \E n \in DOMAIN teams_by_name : \E i, j \in 1..problem_count :
          /\ teams_by_name[n].problems[i].is_frozen
          /\ teams_by_name[n].problems[i].post_freeze_submissions # <<>>
          /\ teams_by_name[n].problems[j].solved_before_freeze
          /\ ~teams_by_name[n].problems[j].is_frozen

\* ---- C20
\* Every problem solved before the freeze has an empty capture buffer, is
\* not frozen and holds an acceptance.
SolvedBeforeFreezeInv ==
    \A n \in DOMAIN teams_by_name :
        \A i \in 1..Len(teams_by_name[n].problems) :
            LET ps == teams_by_name[n].problems[i]
            IN ps.solved_before_freeze =>
                  /\ ps.post_freeze_submissions = <<>>
                  /\ ~ps.is_frozen
                  /\ ps.first_ac_time # NoTime

\* C20: in every state a problem whose solved_before_freeze is set has an
\* empty capture buffer, is not frozen and holds an acceptance; a SUBMIT on
\* it while frozen leaves its record as it is (it is not captured), and no
\* reveal of SCROLL selects it.
C20_SolvedBeforeFreezeStaysOut ==
    /\ []SolvedBeforeFreezeInv
    /\ [][/\ \A n \in DOMAIN teams_by_name :
                (SubmitStepOf(n) /\ frozen) =>
                   LET g == teams_by_name'[n].all_submissions
                       p == g[Len(g)].problem + 1
                   IN teams_by_name[n].problems[p].solved_before_freeze =>
                         teams_by_name'[n].problems[p]
                            = teams_by_name[n].problems[p]
          /\ UnfreezeStep =>
                ~teams_by_name[scr'.step.target]
                    .problems[scr'.step.idx + 1].solved_before_freeze]_vars

\* A problem solved before the freeze has just received a submission while
\* frozen: the history holds it, the buffer is empty, the flag is unset.
C20_Witness ==
    /\ pc = "idle"
    /\ frozen
    /\ last.cmd = "SUBMIT"
    /\ \E n \in DOMAIN teams_by_name : \E i \in 1..problem_count :
          LET t == teams_by_name[n]
          IN /\ t.problems[i].solved_before_freeze
             /\ Len(t.all_submissions) = 2
             /\ t.all_submissions[2].problem = i - 1
             /\ t.all_submissions[1].problem = i - 1
             /\ t.problems[i].post_freeze_submissions = <<>>
             /\ ~t.problems[i].is_frozen

\* ---- C21
\* The visible metrics of team n in the team map T.
MetricsOf(T, n) ==
    <<T[n].solved_count, T[n].penalty_sum, T[n].solve_times_sorted_desc>>

\* C21: in every unfreeze step the revealed team stands in the new order no
\* later than in the order before the step, the visible metrics of every
\* other team are unchanged, and any two other teams stand in the same
\* relative order before and after the step.
C21_OnlyRevealedTeamMoves ==
    [][UnfreezeStep =>
        LET target == scr'.step.target
            others == DOMAIN teams_by_name \ {target}
        IN /\ Range(ordered) = DOMAIN teams_by_name
           /\ Range(ordered') = DOMAIN teams_by_name
           /\ PosIn(ordered', target) <= PosIn(ordered, target)
           /\ \A m \in others :
                 MetricsOf(teams_by_name', m) = MetricsOf(teams_by_name, m)
           /\ \A m1, m2 \in others :
                 (PosIn(ordered, m1) < PosIn(ordered, m2))
                    <=> (PosIn(ordered', m1) < PosIn(ordered', m2))]_vars

\* With three teams, a reveal has just moved the last team to the first
\* place, past two teams of which the upper one has a solved problem.
C21_Witness ==
    /\ pc = "loop"
    /\ scr.step.kind = "unfreeze"
    /\ scr.step.emitted
    /\ Len(ordered) = 3
    /\ ordered[1] = scr.step.target
    /\ scr.step.target = <<1, 1>>
    /\ ordered[2] = <<2>>
    /\ ordered[3] = <<1>>
    /\ teams_by_name[<<2>>].solved_count = 1

\* ---- C22
\* C22: between commands, the ranks QUERY_RANKING reports for the N
\* registered teams are exactly the numbers 1..N, each reported once.
C22_RanksArePermutation ==
    pc = "idle" =>
        /\ {RankOf(n) : n \in DOMAIN teams_by_name}
              = 1..Cardinality(DOMAIN teams_by_name)
        /\ \A n, m \in DOMAIN teams_by_name : n # m => RankOf(n) # RankOf(m)
====
